---------------------------- MODULE Spec2Model ----------------------------
(***************************************************************************)
(* Model of longest_common_substring (src/lcs_wikipedia.py, lines 129-184):*)
(* the rolling two-row dynamic-programming sweep that finds every longest  *)
(* common contiguous substring of two strings.                             *)
(*                                                                         *)
(* Strings are sequences of one-character strings.  Python indices are     *)
(* 0-based, TLA+ sequences 1-based: the model keeps the program's 0-based  *)
(* i and j and reads character h_str[i] as h_str[i + 1].                   *)
(***************************************************************************)
EXTENDS Integers, Sequences, FiniteSets, TLC

VARIABLES str1, str2, h_str, v_str, prev_row, row, longest_strings,
          max_length_seen, j, i, pc, result

vars == <<str1, str2, h_str, v_str, prev_row, row, longest_strings,
          max_length_seen, j, i, pc, result>>

(***************************************************************************)
(* Bounds of the model: the alphabet and the longest input string.         *)
(***************************************************************************)
MaxLen == 3

Alphabet == {"a", "b", "c"}

RECURSIVE StringsOfLen(_)
StringsOfLen(n) ==
    IF n = 0 THEN {<<>>}
    ELSE {Append(s, c) : s \in StringsOfLen(n - 1), c \in Alphabet}

Strings == UNION {StringsOfLen(n) : n \in 0..MaxLen}

Min(a, b) == IF a < b THEN a ELSE b

Max(a, b) == IF a > b THEN a ELSE b

(***************************************************************************)
(* Python built-ins the function uses.                                     *)
(***************************************************************************)

\* s[a:b] on a sequence: a negative bound counts from the end, both bounds
\* are clamped to 0..len(s), and an empty range gives the empty sequence.
SliceBound(x, n) == IF x < 0 THEN Max(x + n, 0) ELSE Min(x, n)

PySlice(s, a, b) == SubSeq(s, SliceBound(a, Len(s)) + 1, SliceBound(b, Len(s)))

\* collections.defaultdict(int): a map from keys to integers.
EmptyRow == [k \in {} |-> 0]

\* Does d[k] raise KeyError?  A defaultdict calls its default_factory for a
\* missing key instead of raising; a plain dict would raise.
PlainDictKeyError(d, k) == k \notin DOMAIN d

KeyErrorOn(d, k) == FALSE

\* The value d[k] evaluates to: the stored value, or int() = 0.
DictGet(d, k) == IF k \in DOMAIN d THEN d[k] ELSE 0

\* The map after evaluating d[k]: __missing__ stores the default under k.
DictAfterGet(d, k) ==
    IF k \in DOMAIN d THEN d
    ELSE [x \in DOMAIN d \cup {k} |-> IF x = k THEN 0 ELSE d[x]]

\* The map after d[k] = v.
DictSet(d, k, v) == [x \in DOMAIN d \cup {k} |-> IF x = k THEN v ELSE d[x]]

\* list(a_set): the elements once each, in an order the set's hashing decides.
ListOfSet(S) ==
    {f \in [1..Cardinality(S) -> S] : \A x \in S : \E n \in DOMAIN f : f[n] = x}

Range(f) == {f[n] : n \in DOMAIN f}

(***************************************************************************)
(* The steps of longest_common_substring as functions of its local state   *)
(* st = [prev_row, row, longest_strings, max_length_seen, raised].         *)
(***************************************************************************)

\* Lines 133-138: the shorter string is the inner (horizontal) one.
HStr(s1, s2) == IF Len(s1) < Len(s2) THEN s1 ELSE s2

VStr(s1, s2) == IF Len(s1) < Len(s2) THEN s2 ELSE s1

\* Lines 142-145.
InitialLocals ==
    [prev_row |-> EmptyRow, row |-> EmptyRow, longest_strings |-> {},
     max_length_seen |-> 0, raised |-> FALSE]

\* Line 154.
InvertedCharsMatch(h_char, v_char) == h_char # v_char

CharsMatch(h_char, v_char) == h_char = v_char

\* Line 159: common_str_len = prev_row[i-1] + 1.
SameColumnRunLength(prev, col) == DictGet(prev, col) + 1

RunLength(prev, col) == DictGet(prev, col - 1) + 1

\* Line 170: common_substr = h_str[i - common_str_len + 1:(i + 1)].
OffByOneCommonSubstr(h, col, len) == PySlice(h, col - len, col + 1)

CommonSubstr(h, col, len) == PySlice(h, col - len + 1, col + 1)

\* Line 175: longest_strings.add(common_substr).
FirstWinsAddTie(S, s) == S

AddTie(S, s) == S \cup {s}

\* Line 178: longest_strings = set([common_substr]).
MergeNewRecord(S, s) == S \cup {s}

NewRecord(S, s) == {s}

\* Line 181: prev_row = row.
ForgetRow(r) == EmptyRow

RolledRow(r) == r

\* Lines 154-178: the body of the inner loop for column col.
InnerBody(st, h, v_char, col) ==
    IF ~CharsMatch(h[col + 1], v_char) THEN st
    ELSE IF KeyErrorOn(st.prev_row, col - 1) THEN [st EXCEPT !.raised = TRUE]
    ELSE
      LET common_str_len == RunLength(st.prev_row, col)
          prev1 == DictAfterGet(st.prev_row, col - 1)
          row1 == DictSet(st.row, col, common_str_len)
          st1 == [st EXCEPT !.prev_row = prev1, !.row = row1]
          common_substr == CommonSubstr(h, col, common_str_len)
      IN  IF common_str_len < st.max_length_seen THEN st1
          ELSE IF common_str_len = st.max_length_seen
          THEN [st1 EXCEPT !.longest_strings = AddTie(@, common_substr)]
          ELSE IF DictGet(row1, col) >= st.max_length_seen
          THEN [st1 EXCEPT !.max_length_seen = common_str_len,
                           !.longest_strings = NewRecord(@, common_substr)]
          ELSE st1

\* Lines 181-182.
RollRows(st) == [st EXCEPT !.prev_row = RolledRow(st.row), !.row = EmptyRow]

\* Line 150: the inner loop from column col on.
RECURSIVE InnerLoop(_, _, _, _)
InnerLoop(st, h, v_char, col) ==
    IF st.raised \/ col >= Len(h) THEN st
    ELSE InnerLoop(InnerBody(st, h, v_char, col), h, v_char, col + 1)

\* Line 149: the outer loop from row r on.
RECURSIVE OuterLoop(_, _, _, _)
OuterLoop(st, h, v, r) ==
    IF st.raised \/ r >= Len(v) THEN st
    ELSE LET swept == InnerLoop(st, h, v[r + 1], 0)
         IN  IF swept.raised THEN swept
             ELSE OuterLoop(RollRows(swept), h, v, r + 1)

\* The set longest_strings holds when the function reaches line 184.
FinalLocals(s1, s2) == OuterLoop(InitialLocals, HStr(s1, s2), VStr(s1, s2), 0)

\* Line 184: the lists the call can return.
longest_common_substring(s1, s2) == ListOfSet(FinalLocals(s1, s2).longest_strings)

(***************************************************************************)
(* The call as a state machine, one step per loop iteration.               *)
(***************************************************************************)
Locals ==
    [prev_row |-> prev_row, row |-> row, longest_strings |-> longest_strings,
     max_length_seen |-> max_length_seen, raised |-> FALSE]

SetLocals(st) ==
    /\ prev_row' = st.prev_row
    /\ row' = st.row
    /\ longest_strings' = st.longest_strings
    /\ max_length_seen' = st.max_length_seen

Init ==
    /\ str1 \in Strings
    /\ str2 \in Strings
    /\ h_str = <<>>
    /\ v_str = <<>>
    /\ prev_row = EmptyRow
    /\ row = EmptyRow
    /\ longest_strings = {}
    /\ max_length_seen = 0
    /\ j = 0
    /\ i = 0
    /\ pc = "call"
    /\ result = <<>>

\* Lines 133-145: pick the roles and initialise the locals.
Enter ==
    /\ pc = "call"
    /\ h_str' = HStr(str1, str2)
    /\ v_str' = VStr(str1, str2)
    /\ SetLocals(InitialLocals)
    /\ j' = 0
    /\ i' = 0
    /\ pc' = "outer"
    /\ UNCHANGED <<str1, str2, result>>

\* Line 149: take the next outer character.
OuterNext ==
    /\ pc = "outer"
    /\ j < Len(v_str)
    /\ i' = 0
    /\ pc' = "inner"
    /\ UNCHANGED <<str1, str2, h_str, v_str, prev_row, row, longest_strings,
                   max_length_seen, j, result>>

\* Line 149: the outer string is exhausted.
OuterDone ==
    /\ pc = "outer"
    /\ j >= Len(v_str)
    /\ pc' = "return"
    /\ UNCHANGED <<str1, str2, h_str, v_str, prev_row, row, longest_strings,
                   max_length_seen, j, i, result>>

\* Lines 150-178: one iteration of the inner loop.
InnerStep ==
    /\ pc = "inner"
    /\ i < Len(h_str)
    /\ LET st == InnerBody(Locals, h_str, v_str[j + 1], i)
       IN  /\ SetLocals(st)
           /\ pc' = IF st.raised THEN "error" ELSE "inner"
           /\ i' = IF st.raised THEN i ELSE i + 1
    /\ UNCHANGED <<str1, str2, h_str, v_str, j, result>>

\* Lines 154: the characters differ, nothing is done.
Mismatch ==
    /\ pc = "inner" /\ i < Len(h_str)
    /\ ~CharsMatch(h_str[i + 1], v_str[j + 1])
    /\ InnerStep

\* Lines 159-165: a match shorter than the record.
MatchShorter ==
    /\ pc = "inner" /\ i < Len(h_str)
    /\ CharsMatch(h_str[i + 1], v_str[j + 1])
    /\ RunLength(prev_row, i) < max_length_seen
    /\ InnerStep

\* Lines 159-175: a match as long as the record.
MatchTie ==
    /\ pc = "inner" /\ i < Len(h_str)
    /\ CharsMatch(h_str[i + 1], v_str[j + 1])
    /\ RunLength(prev_row, i) = max_length_seen
    /\ InnerStep

\* Lines 159-178: a match longer than the record.
MatchRecord ==
    /\ pc = "inner" /\ i < Len(h_str)
    /\ CharsMatch(h_str[i + 1], v_str[j + 1])
    /\ RunLength(prev_row, i) > max_length_seen
    /\ InnerStep

\* Lines 180-182: the inner string is exhausted, roll the rows.
EndRow ==
    /\ pc = "inner"
    /\ i >= Len(h_str)
    /\ SetLocals(RollRows(Locals))
    /\ j' = j + 1
    /\ pc' = "outer"
    /\ UNCHANGED <<str1, str2, h_str, v_str, i, result>>

\* Line 184: return list(longest_strings).
Return ==
    /\ pc = "return"
    /\ \E r \in ListOfSet(longest_strings) : result' = r
    /\ pc' = "done"
    /\ UNCHANGED <<str1, str2, h_str, v_str, prev_row, row, longest_strings,
                   max_length_seen, j, i>>

Next ==
    \/ Enter
    \/ OuterNext
    \/ OuterDone
    \/ Mismatch
    \/ MatchShorter
    \/ MatchTie
    \/ MatchRecord
    \/ EndRow
    \/ Return

Spec == Init /\ [][Next]_vars

\* The call is a sequential program: it keeps running until it returns.
FairSpec == Spec /\ WF_vars(Next)

(***************************************************************************)
(* What the properties speak of, defined without the sweep.                *)
(***************************************************************************)

\* s occurs contiguously in t.
IsSubstring(s, t) ==
    \E a \in 0..(Len(t) - Len(s)) : SubSeq(t, a + 1, a + Len(s)) = s

\* The non-empty contiguous substrings of t.
Substrings(t) == {SubSeq(t, a, b) : a \in 1..Len(t), b \in 1..Len(t)} \ {<<>>}

CommonSubstrings(s, t) == Substrings(s) \cap Substrings(t)

\* The length of the longest common substring, 0 when there is none.
MaxCommonLen(s, t) ==
    IF CommonSubstrings(s, t) = {} THEN 0
    ELSE CHOOSE n \in 1..Len(s) :
           /\ \E x \in CommonSubstrings(s, t) : Len(x) = n
           /\ \A x \in CommonSubstrings(s, t) : Len(x) <= n

\* Cell (col, r) of the full dynamic-programming table: the length of the
\* longest common suffix of h[0..col] and v[0..r].
RECURSIVE CommonSuffixLen(_, _, _, _)
CommonSuffixLen(h, col, v, r) ==
    IF col < 0 \/ r < 0 THEN 0
    ELSE IF h[col + 1] # v[r + 1] THEN 0
    ELSE 1 + CommonSuffixLen(h, col - 1, v, r - 1)

Chars(s) == {s[n] : n \in DOMAIN s}

(***************************************************************************)
(* C1.  Every returned string occurs contiguously in both inputs, and all  *)
(* returned strings have the same length.                                  *)
(***************************************************************************)
C1_ResultsCommonAndEqualLength ==
    pc = "done" =>
        \A n \in DOMAIN result :
            /\ IsSubstring(result[n], str1)
            /\ IsSubstring(result[n], str2)
            /\ \A m \in DOMAIN result : Len(result[m]) = Len(result[n])

C1_Witness ==
    /\ pc = "done"
    /\ Len(result) >= 2
    /\ Len(result[1]) >= 2

(***************************************************************************)
(* C2.  When the call has returned, no common contiguous substring of the  *)
(* inputs is longer than the returned strings; an empty result means the   *)
(* inputs have no non-empty common substring.                              *)
(***************************************************************************)
C2_NoLongerCommonSubstring ==
    pc = "done" =>
        /\ \A s \in CommonSubstrings(str1, str2) :
               \A n \in DOMAIN result : Len(s) <= Len(result[n])
        /\ result = <<>> => CommonSubstrings(str1, str2) = {}

C2_Witness ==
    /\ pc = "done"
    /\ result # <<>>
    /\ Len(result[1]) = 2
    /\ Len(str1) > 2
    /\ Len(str2) > 2

(***************************************************************************)
(* C3.  Every common substring of the maximum common length is in the      *)
(* returned list, and the list holds each value once.                      *)
(***************************************************************************)
C3_AllTiesReturnedOnce ==
    pc = "done" =>
        /\ \A s \in CommonSubstrings(str1, str2) :
               Len(s) = MaxCommonLen(str1, str2) =>
                   \E n \in DOMAIN result : result[n] = s
        /\ \A m, n \in DOMAIN result : result[m] = result[n] => m = n

C3_Witness ==
    /\ pc = "done"
    /\ Len(result) = 3

(***************************************************************************)
(* C4.  Swapping the arguments does not change the set of returned values, *)
(* also when the inputs have equal length and so exchange the inner and    *)
(* outer roles.                                                            *)
(***************************************************************************)
C4_Symmetric ==
    pc = "done" => Range(result) = FinalLocals(str2, str1).longest_strings

C4_Witness ==
    /\ pc = "done"
    /\ Len(str1) = Len(str2)
    /\ str1 # str2
    /\ Len(result) >= 2

(***************************************************************************)
(* C5.  If either input is empty, or the inputs share no character, the    *)
(* call returns the empty list and max_length_seen is still 0.             *)
(***************************************************************************)
C5_EmptyWhenNothingShared ==
    pc = "done" =>
        ((str1 = <<>> \/ str2 = <<>> \/ Chars(str1) \cap Chars(str2) = {})
            => (result = <<>> /\ max_length_seen = 0))

C5_Witness ==
    /\ pc = "done"
    /\ Len(str1) >= 2
    /\ Len(str2) >= 2
    /\ Chars(str1) \cap Chars(str2) = {}
    /\ result = <<>>

(***************************************************************************)
(* C6.  If the shorter input is non-empty and occurs whole in the longer   *)
(* one, the call returns exactly the one-element list holding the shorter  *)
(* input.                                                                  *)
(***************************************************************************)
C6_ContainedShorterIsTheAnswer ==
    pc = "done" =>
        /\ (Len(str1) <= Len(str2) /\ str1 # <<>> /\ IsSubstring(str1, str2))
               => result = <<str1>>
        /\ (Len(str2) <= Len(str1) /\ str2 # <<>> /\ IsSubstring(str2, str1))
               => result = <<str2>>

C6_Witness ==
    /\ pc = "done"
    /\ Len(str2) >= 2
    /\ Len(str2) < Len(str1)
    /\ IsSubstring(str2, str1)
    /\ SubSeq(str1, 1, Len(str2)) # str2
    /\ result = <<str2>>

(***************************************************************************)
(* C7.  Every call terminates and returns without an error: no lookup      *)
(* raises, every slice taken has its bounds inside the inner string, each  *)
(* step of the inner loop moves to the next column of the same row and     *)
(* each end of row moves to the next row.                                  *)
(***************************************************************************)
C7_SliceDefined ==
    (pc = "inner" /\ i < Len(h_str) /\ CharsMatch(h_str[i + 1], v_str[j + 1]))
        => /\ 0 <= i - RunLength(prev_row, i) + 1
           /\ i - RunLength(prev_row, i) + 1 <= i
           /\ i + 1 <= Len(h_str)

C7_SweepOrder ==
    /\ (pc = "inner" /\ pc' = "inner") => (j' = j /\ i' = i + 1 /\ i' <= Len(h_str))
    /\ (pc = "inner" /\ pc' = "outer") => (j' = j + 1 /\ i = Len(h_str))
    /\ (pc = "outer" /\ pc' = "inner") => (j' = j /\ i' = 0 /\ j < Len(v_str))
    /\ (pc = "outer" /\ pc' = "return") => j = Len(v_str)

C7_TotalAndTerminates ==
    /\ <>(pc = "done")
    /\ [](pc # "error" /\ C7_SliceDefined)
    /\ [][C7_SweepOrder]_vars

C7_Witness ==
    /\ pc = "done"
    /\ h_str # <<>>
    /\ h_str[1] = v_str[1]
    /\ j = Len(v_str)
    /\ Len(v_str) >= 2

(***************************************************************************)
(* C8.  The two rolling rows store only nonzero run lengths: every key     *)
(* present in row or prev_row has a value of at least 1.                   *)
(***************************************************************************)
C8_RowsStoreOnlyNonzero ==
    /\ \A k \in DOMAIN row : row[k] >= 1
    /\ \A k \in DOMAIN prev_row : prev_row[k] >= 1

(***************************************************************************)
(* C9.  During and after the inner sweep of row j, row[k] (0 when absent)  *)
(* of every column k already swept equals cell (k, j) of the full table,   *)
(* the length of the longest common suffix of h_str[0..k] and v_str[0..j]; *)
(* it is 1 for a match in column 0 and never exceeds min(k, j) + 1.        *)
(***************************************************************************)
C9_RowsAgreeWithFullTable ==
    pc = "inner" =>
        \A k \in 0..(i - 1) :
            /\ DictGet(row, k) = CommonSuffixLen(h_str, k, v_str, j)
            /\ DictGet(row, k) <= Min(k, j) + 1
            /\ (k = 0 /\ h_str[1] = v_str[j + 1]) => DictGet(row, k) = 1

C9_Witness ==
    /\ pc = "inner"
    /\ i = Len(h_str)
    /\ j >= 1
    /\ DictGet(row, 0) = 1
    /\ \E k \in 1..(i - 1) : DictGet(row, k) >= 2

(***************************************************************************)
(* C10.  Every member of longest_strings has length max_length_seen.  A    *)
(* match with a run length below max_length_seen changes neither, one      *)
(* equal to it only adds its substring, one above it replaces the set by   *)
(* the new substring alone and raises max_length_seen to the run length;   *)
(* max_length_seen never decreases.                                        *)
(***************************************************************************)
C10_AllOfRecordLength == \A s \in longest_strings : Len(s) = max_length_seen

C10_ThreeWay ==
    /\ max_length_seen' >= max_length_seen
    /\ (pc = "inner" /\ i < Len(h_str) /\ h_str[i + 1] = v_str[j + 1]) =>
         LET len == DictGet(row', i)
             sub == SubSeq(h_str, i - len + 2, i + 1)
         IN  /\ len < max_length_seen =>
                   /\ longest_strings' = longest_strings
                   /\ max_length_seen' = max_length_seen
             /\ len = max_length_seen =>
                   /\ longest_strings' = longest_strings \cup {sub}
                   /\ max_length_seen' = max_length_seen
             /\ len > max_length_seen =>
                   /\ longest_strings' = {sub}
                   /\ max_length_seen' = len

C10_RecordInvariant ==
    /\ []C10_AllOfRecordLength
    /\ [][C10_ThreeWay]_vars

C10_Witness ==
    /\ pc = "inner"
    /\ max_length_seen >= 2
    /\ Cardinality(longest_strings) >= 2

=============================================================================
